---- MODULE Spec2Model ----
(***************************************************************************)
(* Client-side job tracking of the ESI agent page (ESIReceivableAgent):    *)
(* the activeJobs / completedJobs partition, the polling effect that       *)
(* re-queries every active job, the initial loadJobs and handleUpload.     *)
(* The backend (job store and processor) is not part of the sources; it is *)
(* modelled from the specification as the environment the page talks to.   *)
(*                                                                         *)
(* Every await of the page is an action boundary: a request that is in     *)
(* flight is part of the state, and the continuation that runs when the    *)
(* response arrives is one action (React batches the state updates of one  *)
(* continuation and re-runs the polling effect before the next task).      *)
(***************************************************************************)
EXTENDS Integers, Sequences, FiniteSets, TLC

\* ------------------------------------------------------------------ bounds
MaxJobs == 2          \* jobs the store ever holds
MaxInit == 1          \* jobs already in the store when the page mounts
MaxOverlap == 1       \* interval callbacks in progress at the same time
MaxCompleted == 3     \* no new interval callback starts beyond this length of completedJobs
MaxUploads == 1       \* upload requests the page issues
MaxTickJobs == 2      \* SpecTicks: jobs in the store
MaxTickOverlap == 2   \* SpecTicks: interval callbacks in progress at the same time
MaxDetailJobs == 2    \* SpecDetail: finished jobs in the store
MaxLedgerLen == 2     \* SpecForm: characters of the ledger name
MaxYears == 2         \* SpecForm: labels in the list of financial years
MaxFormUploads == 2   \* SpecForm: upload requests the page issues

\* ------------------------------------------------------------ value spaces
Results == {"r1"}
Errors == {"boom"}
Details == {"Bad file", ""}
FileLists == {<<>>, <<"a.pdf">>, <<"a.pdf", "b.pdf">>}

NoMsg == "null"
ValidationMsg == "Please select at least one file to upload."
UploadFailedMsg == "Failed to upload documents."
NetworkErrorMsg == "Network error: Could not upload documents."

\* What pollJobStatus returns when the query failed (null).
NullJob == [job_id |-> 0, filename |-> "", status |-> "NULL", result |-> "none", error |-> "none"]

VARIABLES
    store,          \* backend job store: sequence of job records, job_id = index
    activeJobs,     \* useState activeJobs
    completedJobs,  \* useState completedJobs
    pollInterval,   \* the live setInterval of the polling effect and the activeJobs its callback closes over
    liveTimers,     \* number of intervals that were set and not cleared
    mounted,        \* the page is mounted
    ticks,          \* interval callbacks in progress, oldest first
    files,          \* useState files (file names)
    isUploading,    \* useState isUploading
    error,          \* useState error
    success,        \* useState success
    upload,         \* the upload request of handleUpload, if one is in flight
    load,           \* the list request of loadJobs
    requests,       \* history: number of upload requests issued so far
    known,          \* history: job ids the page was told about (list or upload response)
    ledgerName,     \* useState ledgerName: the text of the input, a sequence of characters
    financialYears, \* useState financialYears
    selectedFY,     \* useState selectedFY ("" until one is selected)
    isLoading,      \* useState isLoading
    fyRes,          \* the financial-years request of fetchData
    selectedJob,    \* useState selectedJob: the record clicked in the history list, or NullJob
    lastGood,       \* history: per job id, the records that count as its last known good one
    last            \* history: the continuation that ran in the last step, with the lists before it

vars == <<store, activeJobs, completedJobs, pollInterval, liveTimers, mounted, ticks, files,
          isUploading, error, success, upload, load, requests, known, selectedJob, lastGood, last,
          ledgerName, financialYears, selectedFY, isLoading, fyRes>>
\* The upload form's metadata and the financial years.
formVars == <<ledgerName, financialYears, selectedFY, isLoading, fyRes>>

\* --------------------------------------------------------------- helpers
RECURSIVE Count(_, _)
Count(s, id) ==
    IF s = <<>> THEN 0
    ELSE (IF Head(s).job_id = id THEN 1 ELSE 0) + Count(Tail(s), id)

Ids(s) == {s[i].job_id : i \in 1..Len(s)}

\* ------------------------------------------------------ the page's functions
IsTerminal(status) == status = "COMPLETED" \/ status = "FAILED"

IsActiveStatus(status) == status = "PENDING" \/ status = "PROCESSING"

\* pollJobStatus: the job record on an OK response, null on a non-OK response or an exception.
pollJobStatus(jobId, how) ==
    IF how = "ok" /\ jobId \in 1..Len(store) THEN store[jobId] ELSE NullJob

\* Variant of PollError: a failed query or a FAILED job is put on the error banner.
PollError_Surface(err, updated) ==
    IF updated = NullJob THEN "Error polling job"
    ELSE IF updated.status = "FAILED" THEN updated.error ELSE err

\* The interval callback and pollJobStatus on the error banner: a failed query
\* is logged to the console, a FAILED job is filed like any other.
PollError(err, updated) == err

\* Variants of PushUpdated: one drops a job whose query failed, one keeps the
\* stale record of a job whose query succeeded.
PushUpdated_DropFailed(updatedJobs, job, updated) ==
    IF updated # NullJob
    THEN IF IsTerminal(updated.status) THEN updatedJobs ELSE Append(updatedJobs, updated)
    ELSE updatedJobs
PushUpdated_Stale(updatedJobs, job, updated) ==
    IF updated # NullJob
    THEN IF IsTerminal(updated.status) THEN updatedJobs ELSE Append(updatedJobs, job)
    ELSE Append(updatedJobs, job)

\* Variant of PushUpdated: a failed query discards what the tick gathered from
\* the jobs before it.
PushUpdated_FailClears(updatedJobs, job, updated) ==
    IF updated # NullJob
    THEN IF IsTerminal(updated.status) THEN updatedJobs ELSE Append(updatedJobs, updated)
    ELSE <<job>>

\* The per-job branch of the interval callback, on updatedJobs.
PushUpdated(updatedJobs, job, updated) ==
    IF updated # NullJob
    THEN IF IsTerminal(updated.status) THEN updatedJobs ELSE Append(updatedJobs, updated)
    ELSE Append(updatedJobs, job)

\* Variant of PushCompleted: every job whose query succeeded is filed as completed.
PushCompleted_Every(newlyCompleted, updated) ==
    IF updated # NullJob THEN Append(newlyCompleted, updated) ELSE newlyCompleted

\* Variant of PushCompleted: the completed record is filed without its result.
PushCompleted_NoResult(newlyCompleted, updated) ==
    IF updated # NullJob /\ IsTerminal(updated.status)
    THEN Append(newlyCompleted, [updated EXCEPT !.result = "none"])
    ELSE newlyCompleted

\* Variant of PushCompleted: unshift instead of push.
PushCompleted_Front(newlyCompleted, updated) ==
    IF updated # NullJob /\ IsTerminal(updated.status)
    THEN <<updated>> \o newlyCompleted
    ELSE newlyCompleted

\* The per-job branch of the interval callback, on newlyCompleted.
PushCompleted(newlyCompleted, updated) ==
    IF updated # NullJob /\ IsTerminal(updated.status)
    THEN Append(newlyCompleted, updated)
    ELSE newlyCompleted

\* Variants of MergeCompleted: one forgets prev, one appends instead of prepending.
MergeCompleted_Replace(newlyCompleted, prev) ==
    IF Len(newlyCompleted) > 0 THEN newlyCompleted ELSE prev
MergeCompleted_Append(newlyCompleted, prev) ==
    IF Len(newlyCompleted) > 0 THEN prev \o newlyCompleted ELSE prev

\* setCompletedJobs(prev => [...newlyCompleted, ...prev]) under its guard.
MergeCompleted(newlyCompleted, prev) ==
    IF Len(newlyCompleted) > 0 THEN newlyCompleted \o prev ELSE prev

\* setActiveJobs(updatedJobs)
MergeActive(updatedJobs, prev) == updatedJobs

\* The polling effect, run after activeJobs changed: the previous interval is
\* cleared, and a new one is set when there is a job to poll.
NoTimer == [live |-> FALSE, jobs |-> <<>>]
PollingEffect(active) ==
    IF Len(active) = 0 THEN NoTimer ELSE [live |-> TRUE, jobs |-> active]

\* Variant of ClearInterval: the cleanup forgets the interval.
ClearInterval_Leak(timer, n) == n

\* The cleanup of the polling effect, clearInterval(pollInterval), on the number of live intervals.
ClearInterval(timer, n) == IF timer.live THEN n - 1 ELSE n

\* The body of the polling effect, setInterval unless activeJobs is empty, on the number of live intervals.
SetInterval(active, n) == IF Len(active) = 0 THEN n ELSE n + 1

\* Variant of LoadCompleted: FAILED jobs are left out.
LoadCompleted_OnlyCompleted(jobs) == SelectSeq(jobs, LAMBDA j : j.status = "COMPLETED")

\* loadJobs: the two filters.
LoadActive(jobs) == SelectSeq(jobs, LAMBDA j : IsActiveStatus(j.status))
LoadCompleted(jobs) == SelectSeq(jobs, LAMBDA j : IsTerminal(j.status))

\* handleUpload: result.jobs.map(...) and the prepend.
NewJobs(respJobs) ==
    [i \in 1..Len(respJobs) |->
        [job_id |-> respJobs[i].job_id, filename |-> respJobs[i].filename,
         status |-> respJobs[i].status, result |-> "none", error |-> "none"]]
\* Variant of PrependActive: the new jobs go behind the previous ones.
PrependActive_Append(newJobs, prev) == prev \o newJobs
PrependActive(newJobs, prev) == newJobs \o prev

\* Variant of IsEmptySelection: no validation.
IsEmptySelection_Never(fs) == FALSE

\* handleUpload: the validation of the selection.
IsEmptySelection(fs) == Len(fs) = 0

\* Variant of UploadErrorMessage: the detail of the response is ignored.
UploadErrorMessage_Generic(detail) == "Failed to upload documents."

\* handleUpload: the message of a non-OK response.
UploadErrorMessage(detail) == IF detail # "" THEN detail ELSE UploadFailedMsg

\* JSON.stringify(job.result, null, 2): nothing for an absent result, the
\* quoted text for a result that is a string.
JsonStringify(result) == IF result = "none" THEN "" ELSE "\"" \o result \o "\""

UnknownErrorMsg == "Unknown error occurred"

\* Variant of ExpandedDetails: the error text is shown as it is, also when empty.
ExpandedDetails_NoFallback(job) ==
    IF job.status = "COMPLETED"
    THEN JsonStringify(job.result)
    ELSE IF job.error = "none" THEN "" ELSE job.error

\* The text of the expanded details of a record of the history list
\* (an absent or empty error is falsy).
ExpandedDetails(job) ==
    IF job.status = "COMPLETED"
    THEN JsonStringify(job.result)
    ELSE IF job.error # "none" /\ job.error # "" THEN job.error ELSE UnknownErrorMsg

\* String.prototype.trim on a sequence of characters.
RECURSIVE TrimStart(_)
TrimStart(text) ==
    IF text # <<>> /\ Head(text) = " " THEN TrimStart(Tail(text)) ELSE text
RECURSIVE TrimEnd(_)
TrimEnd(text) ==
    IF text # <<>> /\ text[Len(text)] = " "
    THEN TrimEnd(SubSeq(text, 1, Len(text) - 1))
    ELSE text
Trim(text) == TrimEnd(TrimStart(text))

\* Variant of BuildFormData: the ledger name is appended as typed whenever the
\* input is not empty.
BuildFormData_Untrimmed(fs, ledger, fy) ==
    [files |-> fs,
     ledger_names |-> IF ledger # <<>> THEN <<ledger>> ELSE <<>>,
     financial_year |-> IF fy # "" THEN <<fy>> ELSE <<>>]

\* handleUpload: the FormData of the request, per field name the values
\* appended to it (an empty string is falsy).
BuildFormData(fs, ledger, fy) ==
    [files |-> fs,
     ledger_names |-> IF Trim(ledger) # <<>> THEN <<Trim(ledger)>> ELSE <<>>,
     financial_year |-> IF fy # "" THEN <<fy>> ELSE <<>>]

\* Variant of UploadingFinally: the flag is reset only after a success.
UploadingFinally_OnSuccess(kind) == kind # "ok"
\* handleUpload: isUploading after the finally block, whatever the outcome.
UploadingFinally(kind) == FALSE

\* Variant of LoadApplies: the lists are set whatever the response.
LoadApplies_Always(kind) == TRUE
\* loadJobs: the lists are set only for an OK response that was read.
LoadApplies(kind) == kind = "ok"

\* Variant of SelectedAfterYears: the last label is selected.
SelectedAfterYears_Last(fyData, current) ==
    IF Len(fyData) > 0 THEN fyData[Len(fyData)] ELSE current
\* fetchData: selectedFY after an OK response.
SelectedAfterYears(fyData, current) ==
    IF Len(fyData) > 0 THEN fyData[1] ELSE current

SuccessMsg(n) == "Successfully queued " \o ToString(n) \o " document(s) for AI analysis."

\* ------------------------------------------------------------ history
\* op: "tick" (a callback wrote the lists), "query" (a callback started a status
\* query: note "first" when the interval fired, "next" inside the loop),
\* "submit" (handleUpload was called), "upload" (handleUpload resumed after its
\* fetch), "load" (loadJobs resumed).
\* jobs: the callback's activeJobs, or the jobs a response listed; resps: what
\* pollJobStatus returned for each of the callback's jobs; sent: the files of
\* the upload (years: the labels of a financial-years response, op "years"),
\* or for a tick the jobs that uploads put into activeJobs while the
\* callback ran; note, detail: how the request ended, or for a tick
\* "resubscribed" when the interval was cleared after the callback had started.
NoEvent == [op |-> "none", preActive |-> <<>>, preCompleted |-> <<>>, preRequests |-> 0,
            preError |-> "null", preSuccess |-> "null",
            preFiles |-> <<>>, preLedger |-> <<>>, preYears |-> <<>>, preFY |-> "",
            jobs |-> <<>>, resps |-> <<>>, sent |-> <<>>, note |-> "", detail |-> "",
            years |-> <<>>]
Event(op, jobs, resps, sent, note, detail) ==
    [op |-> op, preActive |-> activeJobs, preCompleted |-> completedJobs,
     preRequests |-> requests, preError |-> error, preSuccess |-> success,
     preFiles |-> files, preLedger |-> ledgerName, preYears |-> financialYears, preFY |-> selectedFY,
     jobs |-> jobs, resps |-> resps, sent |-> sent, note |-> note, detail |-> detail,
     years |-> <<>>]

\* History of last known good records: until a status query of a job succeeds,
\* the records the page was given for it by an upload or list response; from
\* then on the result of the most recent successful query.
JobIds == 1..MaxJobs \cup 1..MaxTickJobs \cup 1..MaxDetailJobs
NoGood == [id \in JobIds |-> [queried |-> FALSE, recs |-> {}]]
Told(good, jobs) ==
    [id \in JobIds |->
        IF good[id].queried
        THEN good[id]
        ELSE [good[id] EXCEPT !.recs = @ \cup {jobs[i] : i \in {x \in 1..Len(jobs) : jobs[x].job_id = id}}]]
Queried(good, updated) ==
    IF updated = NullJob
    THEN good
    ELSE [good EXCEPT ![updated.job_id] = [queried |-> TRUE, recs |-> {updated}]]

\* History kept with a running callback: resub, the polling effect was cleaned
\* up (clearInterval) after the callback had started; added, the jobs that
\* handleUpload put into activeJobs after the callback had started.
Resubscribed(ts) == [k \in 1..Len(ts) |-> [ts[k] EXCEPT !.resub = TRUE]]
Uploaded(ts, newJobs) ==
    [k \in 1..Len(ts) |-> [ts[k] EXCEPT !.resub = TRUE, !.added = newJobs \o @]]

NoForm == [files |-> <<>>, ledger_names |-> <<>>, financial_year |-> <<>>]
NoUpload == [phase |-> "idle", files |-> <<>>, kind |-> "", jobs |-> <<>>, detail |-> "",
             form |-> NoForm]
NoYears == [phase |-> "done", kind |-> "", years |-> <<>>]

\* ------------------------------------------------------------ the backend
PendingJob(id, name) ==
    [job_id |-> id, filename |-> name, status |-> "PENDING", result |-> "none", error |-> "none"]

StoreRecords(id) ==
    {[job_id |-> id, filename |-> "old.pdf", status |-> s, result |-> "none", error |-> "none"] :
        s \in {"PENDING", "PROCESSING"}}
    \cup {[job_id |-> id, filename |-> "old.pdf", status |-> "COMPLETED", result |-> r, error |-> "none"] :
        r \in Results}
    \cup {[job_id |-> id, filename |-> "old.pdf", status |-> "FAILED", result |-> "none", error |-> e] :
        e \in Errors}

InitStores ==
    UNION {{s \in [1..n -> UNION {StoreRecords(i) : i \in 1..n}] :
                \A i \in 1..n : s[i].job_id = i} : n \in 0..MaxInit}

Init ==
    /\ store \in InitStores
    /\ activeJobs = <<>>
    /\ completedJobs = <<>>
    /\ pollInterval = NoTimer
    /\ liveTimers = 0
    /\ mounted = TRUE
    /\ ticks = <<>>
    /\ files = <<>>
    /\ isUploading = FALSE
    /\ error = NoMsg
    /\ success = NoMsg
    /\ upload = NoUpload
    /\ load = [phase |-> "sent", kind |-> "", jobs |-> <<>>]
    /\ requests = 0
    /\ known = {}
    /\ ledgerName = <<>>
    /\ financialYears = <<>>
    /\ selectedFY = ""
    /\ isLoading = TRUE
    /\ fyRes = [phase |-> "sent", kind |-> "", years |-> <<>>]
    /\ selectedJob = NullJob
    /\ lastGood = NoGood
    /\ last = NoEvent

\* Processor: PENDING -> PROCESSING
ProcessorStart(id) ==
    /\ id \in 1..Len(store)
    /\ store[id].status = "PENDING"
    /\ store' = [store EXCEPT ![id].status = "PROCESSING"]
    /\ last' = NoEvent
    /\ UNCHANGED <<activeJobs, completedJobs, pollInterval, liveTimers, mounted, ticks, files, isUploading,
                   error, success, upload, load, requests, known>>
    /\ UNCHANGED <<lastGood, selectedJob>>
    /\ UNCHANGED formVars

\* Processor: PROCESSING -> COMPLETED with a result
ProcessorComplete(id, r) ==
    /\ id \in 1..Len(store)
    /\ store[id].status = "PROCESSING"
    /\ store' = [store EXCEPT ![id].status = "COMPLETED", ![id].result = r]
    /\ last' = NoEvent
    /\ UNCHANGED <<activeJobs, completedJobs, pollInterval, liveTimers, mounted, ticks, files, isUploading,
                   error, success, upload, load, requests, known>>
    /\ UNCHANGED <<lastGood, selectedJob>>
    /\ UNCHANGED formVars

\* Processor: PROCESSING -> FAILED with an error
ProcessorFail(id, e) ==
    /\ id \in 1..Len(store)
    /\ store[id].status = "PROCESSING"
    /\ store' = [store EXCEPT ![id].status = "FAILED", ![id].error = e]
    /\ last' = NoEvent
    /\ UNCHANGED <<activeJobs, completedJobs, pollInterval, liveTimers, mounted, ticks, files, isUploading,
                   error, success, upload, load, requests, known>>
    /\ UNCHANGED <<lastGood, selectedJob>>
    /\ UNCHANGED formVars

\* ------------------------------------------------------------ loadJobs
\* The backend answers the list request (or the request fails).
LoadAnswer(kind) ==
    /\ load.phase = "sent"
    /\ load' = [phase |-> "answered", kind |-> kind,
                jobs |-> IF kind = "ok" THEN store ELSE <<>>]
    /\ last' = NoEvent
    /\ UNCHANGED <<store, activeJobs, completedJobs, pollInterval, liveTimers, mounted, ticks, files, isUploading,
                   error, success, upload, requests, known>>
    /\ UNCHANGED <<lastGood, selectedJob>>
    /\ UNCHANGED formVars

\* The continuation of loadJobs after the fetch. After the page was unmounted
\* its state updates have no effect.
LoadResume ==
    /\ load.phase = "answered"
    /\ load' = [phase |-> "done", kind |-> "", jobs |-> <<>>]
    /\ IF LoadApplies(load.kind) /\ mounted
       THEN /\ activeJobs' = LoadActive(load.jobs)
            /\ completedJobs' = LoadCompleted(load.jobs)
            /\ pollInterval' = PollingEffect(activeJobs')
            /\ liveTimers' = SetInterval(activeJobs', ClearInterval(pollInterval, liveTimers))
            /\ known' = known \cup Ids(load.jobs)
            /\ lastGood' = Told(lastGood, load.jobs)
            /\ ticks' = Resubscribed(ticks)
       ELSE UNCHANGED <<activeJobs, completedJobs, pollInterval, liveTimers, known, lastGood, ticks>>
    /\ last' = IF mounted THEN Event("load", load.jobs, <<>>, <<>>, load.kind, "") ELSE NoEvent
    /\ UNCHANGED <<store, mounted, files, isUploading, error, success, upload, requests, selectedJob>>
    /\ UNCHANGED formVars

\* ------------------------------------------------------------ handleUpload
\* handleFileChange
SelectFiles(fl) ==
    /\ mounted
    /\ upload.phase = "idle"
    /\ files # fl
    /\ files' = fl
    /\ last' = NoEvent
    /\ UNCHANGED <<store, activeJobs, completedJobs, pollInterval, liveTimers, mounted, ticks,
                   isUploading, error, success, upload, load, requests, known>>
    /\ UNCHANGED <<lastGood, selectedJob>>
    /\ UNCHANGED formVars

\* handleUpload up to its fetch. The submit button is disabled while an upload
\* is in flight; the handler itself rejects an empty selection.
HandleUploadWithin(maxRequests) ==
    /\ mounted
    /\ ~isUploading
    /\ upload.phase = "idle"
    /\ last' = Event("submit", <<>>, <<>>, files, "", "")
    /\ IF IsEmptySelection(files)
       THEN /\ error' = ValidationMsg
            /\ UNCHANGED <<isUploading, success, upload, requests>>
       ELSE /\ requests < maxRequests
            /\ isUploading' = TRUE
            /\ error' = NoMsg
            /\ success' = NoMsg
            /\ upload' = [NoUpload EXCEPT !.phase = "sent", !.files = files,
                                          !.form = BuildFormData(files, ledgerName, selectedFY)]
            /\ requests' = requests + 1
    /\ UNCHANGED <<store, activeJobs, completedJobs, pollInterval, liveTimers, mounted, ticks,
                   files, load, known>>
    /\ UNCHANGED <<lastGood, selectedJob>>
    /\ UNCHANGED formVars

HandleUpload == HandleUploadWithin(MaxUploads)

\* The backend answers the upload request: it creates one PENDING job per file
\* and lists them in order, or rejects the request, or the transport fails.
UploadAnswer(kind, detail) ==
    /\ upload.phase = "sent"
    /\ kind = "ok" => Len(store) + Len(upload.files) <= MaxJobs /\ detail = ""
    /\ kind \in {"badjson", "neterr"} => detail = ""
    /\ LET n == Len(store)
           created == [i \in 1..Len(upload.files) |-> PendingJob(n + i, upload.files[i])]
       IN  /\ store' = IF kind = "ok" THEN store \o created ELSE store
           /\ upload' = [upload EXCEPT !.phase = "answered", !.kind = kind, !.detail = detail,
                                       !.jobs = IF kind = "ok" THEN created ELSE <<>>]
    /\ last' = NoEvent
    /\ UNCHANGED <<activeJobs, completedJobs, pollInterval, liveTimers, mounted, ticks, files, isUploading,
                   error, success, load, requests, known>>
    /\ UNCHANGED <<lastGood, selectedJob>>
    /\ UNCHANGED formVars

\* The continuation of handleUpload after the fetch, with its finally block.
\* After the page was unmounted its state updates have no effect.
UploadResume ==
    /\ upload.phase = "answered"
    /\ upload' = NoUpload
    /\ IF ~mounted
       THEN /\ last' = NoEvent
            /\ UNCHANGED <<activeJobs, pollInterval, liveTimers, isUploading, error, success,
                           files, known, lastGood, ticks, ledgerName>>
       ELSE /\ isUploading' = UploadingFinally(upload.kind)
            /\ last' = Event("upload", upload.jobs, <<>>, upload.files, upload.kind, upload.detail)
            /\ IF upload.kind = "ok"
               THEN /\ activeJobs' = PrependActive(NewJobs(upload.jobs), activeJobs)
                    /\ pollInterval' = PollingEffect(activeJobs')
                    /\ liveTimers' = SetInterval(activeJobs', ClearInterval(pollInterval, liveTimers))
                    /\ success' = SuccessMsg(Len(upload.files))
                    /\ files' = <<>>
                    /\ ledgerName' = <<>>
                    /\ known' = known \cup Ids(upload.jobs)
                    /\ lastGood' = Told(lastGood, NewJobs(upload.jobs))
                    /\ ticks' = Uploaded(ticks, NewJobs(upload.jobs))
                    /\ UNCHANGED error
               ELSE /\ error' = IF upload.kind = "reject"
                                THEN UploadErrorMessage(upload.detail)
                                ELSE NetworkErrorMsg
                    /\ UNCHANGED <<activeJobs, pollInterval, liveTimers, success, files, known, lastGood, ticks,
                                   ledgerName>>
    /\ UNCHANGED <<store, completedJobs, mounted, load, requests, selectedJob>>
    /\ UNCHANGED <<financialYears, selectedFY, isLoading, fyRes>>

\* ------------------------------------------------------------ polling effect
\* The interval fires: a callback starts with the activeJobs of its closure
\* and awaits the query of the first job.
TickStartWithin(overlap) ==
    /\ liveTimers > 0
    /\ Len(ticks) < overlap
    /\ Len(completedJobs) < MaxCompleted
    /\ ticks' = Append(ticks, [jobs |-> pollInterval.jobs, resps |-> <<>>,
                               updatedJobs |-> <<>>, newlyCompleted |-> <<>>,
                               resub |-> FALSE, added |-> <<>>])
    /\ last' = Event("query", pollInterval.jobs, <<>>, <<>>, "first", "")
    /\ UNCHANGED <<store, activeJobs, completedJobs, pollInterval, liveTimers, mounted, files,
                   isUploading, error, success, upload, load, requests, known>>
    /\ UNCHANGED <<lastGood, selectedJob>>
    /\ UNCHANGED formVars

TickStart == TickStartWithin(MaxOverlap)

\* The query a callback awaits is answered: the callback files the job and
\* either awaits the next query or, after the last job, writes both lists.
\* After the page was unmounted the writes have no effect.
PollReply(k, how) ==
    /\ k \in 1..Len(ticks)
    /\ LET t == ticks[k]
           i == Len(t.resps) + 1
           job == t.jobs[i]
           updated == pollJobStatus(job.job_id, how)
           t2 == [t EXCEPT !.resps = Append(@, updated),
                           !.updatedJobs = PushUpdated(@, job, updated),
                           !.newlyCompleted = PushCompleted(@, updated)]
       IN  /\ error' = PollError(error, updated)
           /\ lastGood' = Queried(lastGood, updated)
           /\ IF i < Len(t.jobs)
              THEN /\ ticks' = [ticks EXCEPT ![k] = t2]
                   /\ last' = Event("query", t.jobs, t2.resps, <<>>, "next", "")
                   /\ UNCHANGED <<activeJobs, completedJobs, pollInterval, liveTimers>>
              ELSE /\ ticks' = LET rest == SubSeq(ticks, 1, k - 1) \o SubSeq(ticks, k + 1, Len(ticks))
                                IN  IF mounted THEN Resubscribed(rest) ELSE rest
                   /\ IF mounted
                      THEN /\ completedJobs' = MergeCompleted(t2.newlyCompleted, completedJobs)
                           /\ activeJobs' = MergeActive(t2.updatedJobs, activeJobs)
                           /\ pollInterval' = PollingEffect(activeJobs')
                           /\ liveTimers' = SetInterval(activeJobs', ClearInterval(pollInterval, liveTimers))
                           /\ last' = Event("tick", t.jobs, t2.resps, t.added,
                                            IF t.resub THEN "resubscribed" ELSE "", "")
                      ELSE /\ last' = NoEvent
                           /\ UNCHANGED <<activeJobs, completedJobs, pollInterval, liveTimers>>
    /\ UNCHANGED <<store, mounted, files, isUploading, success, upload, load, requests, known,
                   selectedJob>>
    /\ UNCHANGED formVars

\* The page is unmounted: the cleanup of the polling effect clears the interval.
Unmount ==
    /\ mounted
    /\ mounted' = FALSE
    /\ pollInterval' = NoTimer
    /\ liveTimers' = ClearInterval(pollInterval, liveTimers)
    /\ last' = Event("unmount", <<>>, <<>>, <<>>, "", "")
    /\ ticks' = Resubscribed(ticks)
    /\ UNCHANGED <<store, activeJobs, completedJobs, files, isUploading, error, success,
                   upload, load, requests, known>>
    /\ UNCHANGED <<lastGood, selectedJob>>
    /\ UNCHANGED formVars

\* A click on the record at position p of the history list: it is selected, or
\* deselected when the selected record has its job id. The record's details are
\* expanded while its job id is the selected one.
SelectJob(p) ==
    /\ mounted
    /\ p \in 1..Len(completedJobs)
    /\ LET job == completedJobs[p]
       IN  /\ selectedJob' = IF selectedJob.job_id = job.job_id THEN NullJob ELSE job
           /\ last' = IF selectedJob'.job_id = job.job_id
                      THEN Event("select", <<job>>, <<>>, <<>>, "expanded", ExpandedDetails(job))
                      ELSE Event("select", <<job>>, <<>>, <<>>, "collapsed", "")
    /\ UNCHANGED <<store, activeJobs, completedJobs, pollInterval, liveTimers, mounted, ticks, files,
                   isUploading, error, success, upload, load, requests, known, lastGood>>
    /\ UNCHANGED formVars

\* ------------------------------------------------------------ upload form
\* The ledger name input: onChange
SetLedgerName(text) ==
    /\ mounted
    /\ ledgerName # text
    /\ ledgerName' = text
    /\ last' = NoEvent
    /\ UNCHANGED <<store, activeJobs, completedJobs, pollInterval, liveTimers, mounted, ticks, files,
                   isUploading, error, success, upload, load, requests, known, selectedJob, lastGood>>
    /\ UNCHANGED <<financialYears, selectedFY, isLoading, fyRes>>

\* The financial year select: onChange with one of its options
SelectFY(fy) ==
    /\ mounted
    /\ \E i \in 1..Len(financialYears) : financialYears[i] = fy
    /\ selectedFY # fy
    /\ selectedFY' = fy
    /\ last' = NoEvent
    /\ UNCHANGED <<store, activeJobs, completedJobs, pollInterval, liveTimers, mounted, ticks, files,
                   isUploading, error, success, upload, load, requests, known, selectedJob, lastGood>>
    /\ UNCHANGED <<ledgerName, financialYears, isLoading, fyRes>>

\* ------------------------------------------------------------ fetchData
\* The backend answers the financial-years request with an ordered sequence of
\* labels (or the request fails).
YearLabels == {"2024-25", "2023-24"}
YearLists ==
    UNION {{ys \in [1..n -> YearLabels] : \A i, j \in 1..n : i # j => ys[i] # ys[j]} :
               n \in 0..MaxYears}
FyAnswer(kind, years) ==
    /\ fyRes.phase = "sent"
    /\ kind # "ok" => years = <<>>
    /\ fyRes' = [phase |-> "answered", kind |-> kind, years |-> years]
    /\ last' = NoEvent
    /\ UNCHANGED <<store, activeJobs, completedJobs, pollInterval, liveTimers, mounted, ticks, files,
                   isUploading, error, success, upload, load, requests, known, selectedJob, lastGood>>
    /\ UNCHANGED <<ledgerName, financialYears, selectedFY, isLoading>>

\* The continuation of fetchData after the fetch, with its finally block.
FyResume ==
    /\ fyRes.phase = "answered"
    /\ fyRes' = NoYears
    /\ IF ~mounted
       THEN /\ last' = NoEvent
            /\ UNCHANGED <<financialYears, selectedFY, isLoading>>
       ELSE /\ last' = [Event("years", <<>>, <<>>, <<>>, fyRes.kind, "") EXCEPT !.years = fyRes.years]
            /\ isLoading' = FALSE
            /\ IF fyRes.kind = "ok"
               THEN /\ financialYears' = fyRes.years
                    /\ selectedFY' = SelectedAfterYears(fyRes.years, selectedFY)
               ELSE UNCHANGED <<financialYears, selectedFY>>
    /\ UNCHANGED <<store, activeJobs, completedJobs, pollInterval, liveTimers, mounted, ticks, files,
                   isUploading, error, success, upload, load, requests, known, selectedJob, lastGood,
                   ledgerName>>

\* ------------------------------------------------------------ specification
Next ==
    \/ \E id \in 1..MaxJobs : ProcessorStart(id)
    \/ \E id \in 1..MaxJobs, r \in Results : ProcessorComplete(id, r)
    \/ \E id \in 1..MaxJobs, e \in Errors : ProcessorFail(id, e)
    \/ \E kind \in {"ok", "notok", "throw"} : LoadAnswer(kind)
    \/ LoadResume
    \/ \E fl \in FileLists : SelectFiles(fl)
    \/ HandleUpload
    \/ \E kind \in {"ok", "reject", "badjson", "neterr"}, detail \in Details : UploadAnswer(kind, detail)
    \/ UploadResume
    \/ TickStart
    \/ \E k \in 1..MaxOverlap, how \in {"ok", "notok", "throw"} : PollReply(k, how)
    \/ Unmount

Spec == Init /\ [][Next]_vars

\* The polling effect on its own: the page has loaded a store of unfinished
\* jobs, nothing is uploaded, and interval callbacks may overlap (the interval
\* fires again while a callback is still awaiting its queries).
InitTicks ==
    /\ store \in UNION {{st \in [1..n -> UNION {StoreRecords(i) : i \in 1..n}] :
                            \A i \in 1..n : st[i].job_id = i /\ st[i].status = "PENDING"} :
                        n \in 1..MaxTickJobs}
    /\ activeJobs = LoadActive(store)
    /\ completedJobs = LoadCompleted(store)
    /\ pollInterval = PollingEffect(activeJobs)
    /\ liveTimers = SetInterval(activeJobs, 0)
    /\ mounted = TRUE
    /\ ticks = <<>>
    /\ files = <<>>
    /\ isUploading = FALSE
    /\ error = NoMsg
    /\ success = NoMsg
    /\ upload = NoUpload
    /\ load = [phase |-> "done", kind |-> "", jobs |-> <<>>]
    /\ requests = 0
    /\ known = Ids(store)
    /\ ledgerName = <<>>
    /\ financialYears = <<>>
    /\ selectedFY = ""
    /\ isLoading = FALSE
    /\ fyRes = NoYears
    /\ selectedJob = NullJob
    /\ lastGood = Told(NoGood, store)
    /\ last = NoEvent

TickStartOverlapping == TickStartWithin(MaxTickOverlap)

NextTicks ==
    \/ \E id \in 1..MaxTickJobs : ProcessorStart(id)
    \/ \E id \in 1..MaxTickJobs, r \in Results : ProcessorComplete(id, r)
    \/ \E id \in 1..MaxTickJobs, e \in Errors : ProcessorFail(id, e)
    \/ TickStartOverlapping
    \/ \E k \in 1..MaxTickOverlap, how \in {"ok", "notok", "throw"} : PollReply(k, how)

SpecTicks == InitTicks /\ [][NextTicks]_vars

\* The page that stays mounted, with requests that are answered: one file is
\* uploaded, the list and upload requests succeed, the interval fires as long
\* as it is set, every status query is answered, every job's query succeeds
\* again and again, and the processor finishes every job.
NextLive ==
    \/ \E id \in 1..MaxJobs : ProcessorStart(id)
    \/ \E id \in 1..MaxJobs, r \in Results : ProcessorComplete(id, r)
    \/ \E id \in 1..MaxJobs, e \in Errors : ProcessorFail(id, e)
    \/ LoadAnswer("ok")
    \/ LoadResume
    \/ SelectFiles(<<"a.pdf">>)
    \/ HandleUpload
    \/ UploadAnswer("ok", "")
    \/ UploadResume
    \/ TickStart
    \/ \E k \in 1..MaxOverlap, how \in {"ok", "notok", "throw"} : PollReply(k, how)

\* The status query of job id that a callback awaits succeeds.
PollOk(id) ==
    \E k \in 1..MaxOverlap :
        /\ k \in 1..Len(ticks)
        /\ ticks[k].jobs[Len(ticks[k].resps) + 1].job_id = id
        /\ PollReply(k, "ok")

ProcessorFinish(id) ==
    \/ ProcessorStart(id)
    \/ \E r \in Results : ProcessorComplete(id, r)
    \/ \E e \in Errors : ProcessorFail(id, e)

FairSpec ==
    /\ Init
    /\ [][NextLive]_vars
    /\ WF_vars(LoadAnswer("ok")) /\ WF_vars(LoadResume)
    /\ WF_vars(UploadAnswer("ok", "")) /\ WF_vars(UploadResume)
    /\ WF_vars(TickStart)
    /\ WF_vars(\E k \in 1..MaxOverlap, how \in {"ok", "notok", "throw"} : PollReply(k, how))
    /\ \A id \in 1..MaxJobs : SF_vars(PollOk(id)) /\ WF_vars(ProcessorFinish(id))

\* The history list on its own: the page has loaded a store of finished jobs,
\* with or without result and error text, and the user clicks on records.
DetailRecords(id) ==
    {[job_id |-> id, filename |-> "old.pdf", status |-> "COMPLETED", result |-> r, error |-> "none"] :
        r \in Results \cup {"none"}}
    \cup {[job_id |-> id, filename |-> "old.pdf", status |-> "FAILED", result |-> "none", error |-> e] :
        e \in Errors \cup {"", "none"}}

InitDetail ==
    /\ store \in UNION {{st \in [1..n -> UNION {DetailRecords(i) : i \in 1..n}] :
                            \A i \in 1..n : st[i].job_id = i} : n \in 0..MaxDetailJobs}
    /\ activeJobs = LoadActive(store)
    /\ completedJobs = LoadCompleted(store)
    /\ pollInterval = PollingEffect(activeJobs)
    /\ liveTimers = SetInterval(activeJobs, 0)
    /\ mounted = TRUE
    /\ ticks = <<>>
    /\ files = <<>>
    /\ isUploading = FALSE
    /\ error = NoMsg
    /\ success = NoMsg
    /\ upload = NoUpload
    /\ load = [phase |-> "done", kind |-> "", jobs |-> <<>>]
    /\ requests = 0
    /\ known = Ids(store)
    /\ ledgerName = <<>>
    /\ financialYears = <<>>
    /\ selectedFY = ""
    /\ isLoading = FALSE
    /\ fyRes = NoYears
    /\ selectedJob = NullJob
    /\ lastGood = Told(NoGood, store)
    /\ last = NoEvent

NextDetail == \E p \in 1..MaxDetailJobs : SelectJob(p)

SpecDetail == InitDetail /\ [][NextDetail]_vars

\* The upload form on its own: the list of jobs was loaded from an empty store,
\* the financial years are being fetched, the user types a ledger name, picks
\* a year and files, and submits; no interval callback runs.
LedgerChars == {" ", "A"}
LedgerTexts == UNION {[1..n -> LedgerChars] : n \in 0..MaxLedgerLen}

InitForm ==
    /\ store = <<>>
    /\ activeJobs = <<>>
    /\ completedJobs = <<>>
    /\ pollInterval = NoTimer
    /\ liveTimers = 0
    /\ mounted = TRUE
    /\ ticks = <<>>
    /\ files = <<>>
    /\ isUploading = FALSE
    /\ error = NoMsg
    /\ success = NoMsg
    /\ upload = NoUpload
    /\ load = [phase |-> "done", kind |-> "", jobs |-> <<>>]
    /\ requests = 0
    /\ known = {}
    /\ ledgerName = <<>>
    /\ financialYears = <<>>
    /\ selectedFY = ""
    /\ isLoading = TRUE
    /\ fyRes = [phase |-> "sent", kind |-> "", years |-> <<>>]
    /\ selectedJob = NullJob
    /\ lastGood = NoGood
    /\ last = NoEvent

HandleUploadAgain == HandleUploadWithin(MaxFormUploads)

NextForm ==
    \/ \E kind \in {"ok", "notok", "throw"}, years \in YearLists : FyAnswer(kind, years)
    \/ FyResume
    \/ \E text \in LedgerTexts : SetLedgerName(text)
    \/ \E fy \in YearLabels : SelectFY(fy)
    \/ \E fl \in FileLists : SelectFiles(fl)
    \/ HandleUploadAgain
    \/ \E kind \in {"ok", "reject", "badjson", "neterr"}, detail \in Details : UploadAnswer(kind, detail)
    \/ UploadResume

SpecForm == InitForm /\ [][NextForm]_vars

TypeOK ==
    /\ Len(store) <= MaxJobs
    /\ Len(ticks) <= MaxOverlap
    /\ pollInterval.live => pollInterval.jobs = activeJobs
    /\ liveTimers = IF pollInterval.live THEN 1 ELSE 0

\* ------------------------------------------------------------ properties
\* What the last callback learned about its k-th job.
Failed(k) == last.resps[k] = NullJob
FoundTerminal(k) == last.resps[k] # NullJob /\ IsTerminal(last.resps[k].status)
FoundActive(k) == last.resps[k] # NullJob /\ ~IsTerminal(last.resps[k].status)
TickDone == last.op = "tick"
TickIdx == 1..Len(last.jobs)

\* Positions of the callback's jobs that were not found terminal / were found terminal, in list order.
KeptIdx == SelectSeq([k \in TickIdx |-> k], LAMBDA k : ~FoundTerminal(k))
TermIdx == SelectSeq([k \in TickIdx |-> k], LAMBDA k : FoundTerminal(k))

\* C1: every job the page was told about (by the list response or by an upload
\* response) is in exactly one of activeJobs and completedJobs, exactly once.
C1_PartitionExhaustive ==
    \A id \in known : Count(activeJobs, id) + Count(completedJobs, id) = 1

\* C2: a job whose status query failed in a tick is in activeJobs after the
\* tick, with the record the tick started with.
C2_PollFailureIsolation ==
    TickDone =>
        \A k \in TickIdx :
            Failed(k) => \E p \in 1..Len(activeJobs) : activeJobs[p] = last.jobs[k]
C2_Witness ==
    /\ TickDone
    /\ \E k \in TickIdx : Failed(k) /\ store[last.jobs[k].job_id] # last.jobs[k]

\* C3: two jobs found terminal in the same tick stand in completedJobs in the
\* order in which the tick queried them.
C3_CompletionOrdering ==
    TickDone =>
        \A k1, k2 \in TickIdx :
            (k1 < k2 /\ FoundTerminal(k1) /\ FoundTerminal(k2)) =>
                \E p1, p2 \in 1..Len(completedJobs) :
                    /\ p1 < p2
                    /\ completedJobs[p1] = last.resps[k1]
                    /\ completedJobs[p2] = last.resps[k2]
C3_Witness ==
    /\ TickDone
    /\ \E k1, k2 \in TickIdx :
          /\ k1 < k2 /\ FoundTerminal(k1) /\ FoundTerminal(k2)
          /\ last.resps[k1].job_id # last.resps[k2].job_id

\* C4: a tick or an upload leaves every record of completedJobs (the records
\* with a terminal status) in place with the same status, result and error.
C4_Monotonicity ==
    last.op \in {"tick", "submit", "upload"} =>
        /\ Len(completedJobs) >= Len(last.preCompleted)
        /\ \A p \in 1..Len(last.preCompleted) :
              LET q == Len(completedJobs) - Len(last.preCompleted) + p
              IN  /\ completedJobs[q].job_id = last.preCompleted[p].job_id
                  /\ completedJobs[q].status = last.preCompleted[p].status
                  /\ completedJobs[q].result = last.preCompleted[p].result
                  /\ completedJobs[q].error = last.preCompleted[p].error
C4_Witness ==
    /\ TickDone
    /\ Len(last.preCompleted) > 0
    /\ \E k \in TickIdx : FoundTerminal(k)

\* C5: a job found terminal in a tick is gone from activeJobs after the tick
\* and the record the query returned is in completedJobs.
C5_TerminalMoves ==
    TickDone =>
        \A k \in TickIdx :
            FoundTerminal(k) =>
                /\ Count(activeJobs, last.jobs[k].job_id) = 0
                /\ \E p \in 1..Len(completedJobs) : completedJobs[p] = last.resps[k]

\* C6: after a tick activeJobs holds the jobs that were not found terminal, in
\* the order the tick started with, each job whose query succeeded with its
\* refreshed record.
C6_RefreshInOrder ==
    TickDone =>
        /\ Len(activeJobs) = Len(KeptIdx)
        /\ \A p \in 1..Len(KeptIdx) :
              /\ activeJobs[p].job_id = last.jobs[KeptIdx[p]].job_id
              /\ FoundActive(KeptIdx[p]) => activeJobs[p] = last.resps[KeptIdx[p]]
C6_Witness ==
    /\ TickDone
    /\ Len(last.jobs) >= 2
    /\ \E k \in TickIdx : FoundActive(k) /\ last.resps[k] # last.jobs[k]
    /\ \E k \in TickIdx : FoundTerminal(k)

\* C7: after a tick completedJobs is the jobs found terminal, in query order,
\* followed by completedJobs as it was before.
C7_PrependCompleted ==
    TickDone =>
        completedJobs = [p \in 1..Len(TermIdx) |-> last.resps[TermIdx[p]]] \o last.preCompleted
C7_Witness ==
    /\ TickDone
    /\ Len(TermIdx) > 0
    /\ Len(last.preCompleted) > 0

\* C8: a successful upload puts the jobs of the response, as PENDING records in
\* the order of the response (one per file, in submission order), in front of
\* the previous activeJobs and leaves completedJobs as it was.
C8_UploadPrepends ==
    (last.op = "upload" /\ last.note = "ok") =>
        /\ Len(last.jobs) = Len(last.sent)
        /\ Len(activeJobs) = Len(last.jobs) + Len(last.preActive)
        /\ \A i \in 1..Len(last.jobs) :
              /\ activeJobs[i].job_id = last.jobs[i].job_id
              /\ activeJobs[i].filename = last.sent[i]
              /\ activeJobs[i].status = "PENDING"
        /\ SubSeq(activeJobs, Len(last.jobs) + 1, Len(activeJobs)) = last.preActive
        /\ completedJobs = last.preCompleted
C8_Witness ==
    /\ last.op = "upload" /\ last.note = "ok"
    /\ Len(last.preActive) > 0
    /\ Len(last.preCompleted) > 0
C8_WitnessTwoFiles ==
    /\ last.op = "upload" /\ last.note = "ok"
    /\ Len(last.sent) = 2

\* C9: handleUpload with no file selected issues no upload request, sets the
\* validation message and leaves both lists as they were.
C9_EmptySelectionRejected ==
    (last.op = "submit" /\ Len(last.sent) = 0) =>
        /\ requests = last.preRequests
        /\ upload.phase = "idle"
        /\ ~isUploading
        /\ error = ValidationMsg
        /\ activeJobs = last.preActive
        /\ completedJobs = last.preCompleted
C9_Witness ==
    /\ last.op = "submit" /\ Len(last.sent) = 0
    /\ Len(activeJobs) > 0

\* C10: an upload that ends with a non-OK response or a transport failure adds
\* no job to either list, and shows the detail of the response when it has
\* one, a generic message otherwise.
C10_UploadFailure ==
    (last.op = "upload" /\ last.note # "ok") =>
        /\ activeJobs = last.preActive
        /\ completedJobs = last.preCompleted
        /\ IF last.note = "reject" /\ last.detail # ""
           THEN error = last.detail
           ELSE error \in {UploadFailedMsg, NetworkErrorMsg}
C10_Witness ==
    /\ last.op = "upload" /\ last.note = "reject" /\ last.detail # ""
    /\ Len(activeJobs) > 0

\* C11: after a successful initial load activeJobs is the listed jobs with
\* status PENDING or PROCESSING and completedJobs is all the other listed jobs,
\* both in the order of the list.
C11_LoadPartitions ==
    (last.op = "load" /\ last.note = "ok") =>
        /\ activeJobs = SelectSeq(last.jobs, LAMBDA j : j.status \in {"PENDING", "PROCESSING"})
        /\ completedJobs = SelectSeq(last.jobs, LAMBDA j : j.status \notin {"PENDING", "PROCESSING"})
C11_Witness ==
    /\ last.op = "load" /\ last.note = "ok"
    /\ Len(activeJobs) = 1
    /\ Len(completedJobs) = 1
    /\ completedJobs[1].status = "FAILED"

\* C12: while activeJobs is empty no interval is set, and no callback starts a
\* status query.
C12_IdleWhenEmpty ==
    /\ activeJobs = <<>> => ~pollInterval.live
    /\ last.op = "query" => activeJobs # <<>>
\* The part of C12 that is about scheduling: no interval is set and no
\* interval fires while activeJobs is empty.
C12_NoTickScheduledWhenEmpty ==
    /\ activeJobs = <<>> => ~pollInterval.live
    /\ (last.op = "query" /\ last.note = "first") => activeJobs # <<>>

\* C14: at most one interval of the polling effect is live; a re-run of the
\* effect and the unmount clear the previous interval before another is set.
C14_SingleTimer == liveTimers <= 1
C14_Witness ==
    /\ last.op \in {"tick", "upload", "load"}
    /\ last.preActive # <<>>
    /\ activeJobs # <<>>
    /\ activeJobs # last.preActive
    /\ liveTimers = 1

\* C16: once the page is unmounted no interval is live and no interval fires.
C16_NoTickAfterTeardown ==
    ~mounted =>
        /\ liveTimers = 0
        /\ ~(last.op = "query" /\ last.note = "first")
C16_Witness ==
    /\ ~mounted
    /\ last.op = "unmount"
    /\ last.preActive # <<>>

\* C19: a status query, failed or not, and a tick that found a FAILED job leave
\* the error and success banners as they were; the failure is on the job's
\* record in completedJobs.
C19_PollingLeavesBanners ==
    /\ last.op \in {"tick", "query"} =>
          /\ error = last.preError
          /\ success = last.preSuccess
    /\ TickDone =>
          \A k \in TickIdx :
              (FoundTerminal(k) /\ last.resps[k].status = "FAILED") =>
                  \E p \in 1..Len(completedJobs) :
                      /\ completedJobs[p].job_id = last.jobs[k].job_id
                      /\ completedJobs[p].status = "FAILED"
                      /\ completedJobs[p].error = last.resps[k].error
C19_Witness ==
    /\ TickDone
    /\ \E k \in TickIdx : Failed(k)
    /\ \E k \in TickIdx : FoundTerminal(k) /\ last.resps[k].status = "FAILED"

\* C15: at most one interval callback is in progress at any time.
C15_SingleTimeline == Len(ticks) <= 1
\* A callback writes the lists while another callback is still in progress.
C15_OverlappingWrite == TickDone /\ Len(ticks) >= 1

\* The records a tick put in front of completedJobs.
NewPrefix == SubSeq(completedJobs, 1, Len(completedJobs) - Len(last.preCompleted))

\* C17: what a tick does with a job is decided by that job's own query alone,
\* whatever the queries of the other jobs returned: a failed query keeps the
\* job's record in activeJobs, a non-terminal answer puts the answer there, a
\* terminal answer moves the job to the front block of completedJobs.
C17_PerJobIndependence ==
    TickDone =>
        \A k \in TickIdx :
            LET id == last.jobs[k].job_id
            IN  Count(last.jobs, id) = 1 =>
                    /\ Failed(k) =>
                          /\ \E p \in 1..Len(activeJobs) : activeJobs[p] = last.jobs[k]
                          /\ Count(activeJobs, id) = 1
                          /\ Count(NewPrefix, id) = 0
                    /\ FoundActive(k) =>
                          /\ \E p \in 1..Len(activeJobs) : activeJobs[p] = last.resps[k]
                          /\ Count(activeJobs, id) = 1
                          /\ Count(NewPrefix, id) = 0
                    /\ FoundTerminal(k) =>
                          /\ \E p \in 1..Len(NewPrefix) : NewPrefix[p] = last.resps[k]
                          /\ Count(NewPrefix, id) = 1
                          /\ Count(activeJobs, id) = 0
\* Two jobs in one tick, one query failed and the other succeeded.
C17_Witness ==
    /\ TickDone
    /\ \E x, y \in TickIdx :
          /\ last.jobs[x].job_id # last.jobs[y].job_id
          /\ Failed(x)
          /\ ~Failed(y)

\* C18: after a tick, the record of every job in activeJobs is its last known
\* good one: the result of its most recent successful query or, if no query
\* of it has succeeded yet, a record the page was given for it by an upload or
\* list response.
C18_LastKnownGood ==
    TickDone => \A p \in 1..Len(activeJobs) :
                    activeJobs[p] \in lastGood[activeJobs[p].job_id].recs

\* The interval is never kept from firing by the bound on completedJobs.
TickNeverCapped == liveTimers > 0 => Len(completedJobs) < MaxCompleted

UploadedIntoEmpty(id) ==
    /\ last.op = "upload"
    /\ last.note = "ok"
    /\ last.preActive = <<>>
    /\ id \in Ids(last.jobs)
TickQueries(id) ==
    /\ last.op = "query"
    /\ last.note = "first"
    /\ id \in Ids(last.jobs)

\* C13: after a successful upload has put jobs into an empty activeJobs, an
\* interval callback that queries those jobs eventually starts.
C13_PollingResumes ==
    \A id \in JobIds : UploadedIntoEmpty(id) ~> TickQueries(id)
\* The same once the list request of the mount is over.
C13_ResumesAfterLoad ==
    \A id \in JobIds : (UploadedIntoEmpty(id) /\ load.phase = "done") ~> TickQueries(id)

\* C20: every job in activeJobs eventually leaves it and is in completedJobs,
\* given that the processor finishes the job and its status queries succeed
\* again and again.
C20_EventualObservation ==
    \A id \in JobIds :
        (id \in Ids(activeJobs)) ~> (id \notin Ids(activeJobs) /\ id \in Ids(completedJobs))

\* C22: every record in activeJobs has status PENDING or PROCESSING and every
\* record in completedJobs has status COMPLETED or FAILED.
C22_StatusTyping ==
    /\ \A p \in 1..Len(activeJobs) : activeJobs[p].status \in {"PENDING", "PROCESSING"}
    /\ \A p \in 1..Len(completedJobs) : completedJobs[p].status \in {"COMPLETED", "FAILED"}
\* A tick has refreshed one job and moved another to completedJobs.
C22_Witness ==
    /\ TickDone
    /\ \E k \in TickIdx : FoundActive(k)
    /\ \E k \in TickIdx : FoundTerminal(k)
    /\ activeJobs # <<>>
    /\ completedJobs # <<>>

\* C26: the jobs that an upload put into activeJobs while a callback was
\* running are in activeJobs or completedJobs after that callback wrote the lists.
C26_NoLostIngestion ==
    TickDone => \A id \in Ids(last.sent) : id \in Ids(activeJobs) \cup Ids(completedJobs)

\* C27: a callback whose interval was cleared while it was running (the polling
\* effect re-ran or the page was unmounted) writes neither list afterwards.
C27_CancelledTickIsSilent == TickDone => last.note # "resubscribed"
\* The half that holds: after the unmount no callback writes a list.
C27_SilentAfterUnmount == ~mounted => ~TickDone

\* C28: no job id occurs more than once in activeJobs, nor more than once in
\* completedJobs.
C28_NoDuplicates ==
    \A id \in JobIds : Count(activeJobs, id) <= 1 /\ Count(completedJobs, id) <= 1

\* C30: a job that an upload put into activeJobs before the list response of
\* the mount arrived is in activeJobs or completedJobs after loadJobs applied
\* that response.
C30_LateLoadKeepsJobs ==
    (last.op = "load" /\ last.note = "ok") =>
        \A id \in Ids(last.preActive) : id \in Ids(activeJobs) \cup Ids(completedJobs)

\* Every record in completedJobs has the status, result and error of the
\* store's record of that job.
CompletedMirrorsStore ==
    \A p \in 1..Len(completedJobs) :
        LET c == completedJobs[p]
        IN  /\ c.job_id \in 1..Len(store)
            /\ c.status = store[c.job_id].status
            /\ c.result = store[c.job_id].result
            /\ c.error = store[c.job_id].error
\* A step that changes the record of a job in the store answers no request of
\* the page and runs no continuation of the page.
StoreChangedByStoreOnly ==
    (\E i \in 1..Len(store) : store'[i] # store[i]) =>
        UNCHANGED <<activeJobs, completedJobs, ticks, upload, load, requests, files>>

\* C23: the page mirrors the job store: every record in completedJobs carries the
\* status, result and error the store holds for that job, and no request of
\* the page changes the record of a job in the store.
C23_MirrorsStore == []CompletedMirrorsStore /\ [][StoreChangedByStoreOnly]_vars
\* A tick has filed a COMPLETED job, result included, in completedJobs.
C23_Witness ==
    /\ TickDone
    /\ \E k \in TickIdx : FoundTerminal(k) /\ last.resps[k].status = "COMPLETED"
                           /\ last.resps[k].result \in Results

\* The answers a callback has so far are those of its first jobs, in list order.
AnswersInOrder ==
    /\ Len(last.resps) <= Len(last.jobs)
    /\ \A k \in 1..Len(last.resps) :
          last.resps[k] = NullJob \/ last.resps[k].job_id = last.jobs[k].job_id
\* The half of C24 that holds: a callback goes through the activeJobs of the
\* moment the interval fired, in list order, one query at a time, and writes
\* the lists only after the query of its last job.
C24_InOrderOneAtATime ==
    /\ (last.op = "query" /\ last.note = "first") => last.jobs = activeJobs /\ last.resps = <<>>
    /\ last.op = "query" => AnswersInOrder /\ Len(last.resps) < Len(last.jobs)
    /\ TickDone => AnswersInOrder /\ Len(last.resps) = Len(last.jobs)

\* C24: a tick issues exactly one status query for every job that is in
\* activeJobs when it starts, in list order and one at a time, and none for a
\* job that is in completedJobs.
C24_QueryDiscipline ==
    /\ C24_InOrderOneAtATime
    /\ last.op = "query" =>
          LET id == last.jobs[Len(last.resps) + 1].job_id
          IN  /\ Count(last.jobs, id) = 1
              /\ id \notin Ids(completedJobs)

\* PENDING, then PROCESSING, then COMPLETED or FAILED.
Rank(status) ==
    IF status = "PENDING" THEN 1 ELSE IF status = "PROCESSING" THEN 2 ELSE 3
\* The statuses the page shows for job id, given both lists.
ShownRanks(active, completed, id) ==
    {Rank(active[p].status) : p \in {x \in 1..Len(active) : active[x].job_id = id}}
    \cup {Rank(completed[p].status) : p \in {x \in 1..Len(completed) : completed[x].job_id = id}}

\* C29: a tick never moves the shown status of a job backward: no status shown
\* for a job after the tick is earlier in PENDING, PROCESSING, COMPLETED/FAILED
\* than every status shown for it before the tick.
C29_StatusNeverBackward ==
    TickDone =>
        \A id \in JobIds :
            LET before == ShownRanks(last.preActive, last.preCompleted, id)
                after == ShownRanks(activeJobs, completedJobs, id)
            IN  \A a \in after : before # {} => \E b \in before : b <= a

\* C25: the expanded details of a record of completedJobs show the stored result
\* when its status is COMPLETED, and when it is FAILED the stored error text,
\* or the unknown-error text when the error is absent or empty.
C25_DetailView ==
    (last.op = "select" /\ last.note = "expanded") =>
        LET job == last.jobs[1]
        IN  /\ \E p \in 1..Len(completedJobs) : completedJobs[p] = job
            /\ selectedJob = job
            /\ (job.status = "COMPLETED" /\ job.result # "none") =>
                  last.detail = "\"" \o job.result \o "\""
            /\ (job.status = "FAILED" /\ job.error \notin {"none", ""}) =>
                  last.detail = job.error
            /\ (job.status = "FAILED" /\ job.error \in {"none", ""}) =>
                  last.detail = "Unknown error occurred"
\* A FAILED record with an empty error text is expanded.
C25_Witness ==
    /\ last.op = "select"
    /\ last.note = "expanded"
    /\ last.jobs[1].status = "FAILED"
    /\ last.jobs[1].error = ""
\* A COMPLETED record with a result is expanded.
C25_WitnessCompleted ==
    /\ last.op = "select"
    /\ last.note = "expanded"
    /\ last.jobs[1].status = "COMPLETED"
    /\ last.jobs[1].result \in Results

TickStarts == last.op = "query" /\ last.note = "first"

\* C21: whenever activeJobs is not empty, an interval callback eventually
\* starts, whatever changes activeJobs and re-runs the polling effect meanwhile.
C21_CadenceUnderChurn == (activeJobs # <<>>) ~> TickStarts
\* The same as long as work remains: a callback starts or activeJobs is emptied.
C21_WhileWorkRemains == (activeJobs # <<>>) ~> (TickStarts \/ activeJobs = <<>>)

\* C33: when the list request of the mount fails (exception or non-OK
\* response), activeJobs and completedJobs are left as they were and neither
\* banner changes.
C33_ListFailureIsSilent ==
    (last.op = "load" /\ last.note # "ok") =>
        /\ activeJobs = last.preActive
        /\ completedJobs = last.preCompleted
        /\ error = last.preError
        /\ success = last.preSuccess
\* The list request fails after an upload has put a job into activeJobs.
C33_Witness ==
    /\ last.op = "load"
    /\ last.note \in {"notok", "throw"}
    /\ last.preActive # <<>>
    /\ last.preSuccess # NoMsg

\* C34: isUploading is true exactly while an upload request is in flight and
\* false after every outcome; a success clears the selected files and the
\* ledger name, a failure leaves both as they were.
C34_UploadingFlag ==
    /\ mounted => (isUploading <=> upload.phase \in {"sent", "answered"})
    /\ last.op = "upload" =>
          /\ ~isUploading
          /\ last.note = "ok" => files = <<>> /\ ledgerName = <<>>
          /\ last.note # "ok" => files = last.preFiles /\ ledgerName = last.preLedger
\* An upload with files and a ledger name fails.
C34_Witness ==
    /\ last.op = "upload"
    /\ last.note \in {"reject", "badjson", "neterr"}
    /\ files # <<>>
    /\ Trim(ledgerName) # <<>>
\* The batch of a failed upload is submitted again and succeeds.
C34_WitnessResubmitted ==
    /\ last.op = "upload"
    /\ last.note = "ok"
    /\ requests = 2
    /\ Trim(last.preLedger) # <<>>

IsBlank(text) == \A i \in 1..Len(text) : text[i] = " "
\* v is text without the spaces at its ends.
IsTrimOf(v, text) ==
    /\ v # <<>>
    /\ v[1] # " "
    /\ v[Len(v)] # " "
    /\ \E a \in 0..Len(text) :
          /\ a + Len(v) <= Len(text)
          /\ SubSeq(text, a + 1, a + Len(v)) = v
          /\ IsBlank(SubSeq(text, 1, a))
          /\ IsBlank(SubSeq(text, a + Len(v) + 1, Len(text)))

\* C35: an upload request carries every selected file in selection order, the
\* ledger name only when it is not blank (and then trimmed), and the financial
\* year only when one is selected, all in one request.
C35_OptionalMetadata ==
    (last.op = "submit" /\ last.preFiles # <<>>) =>
        /\ requests = last.preRequests + 1
        /\ upload.phase = "sent"
        /\ upload.form.files = last.preFiles
        /\ IF IsBlank(last.preLedger)
           THEN upload.form.ledger_names = <<>>
           ELSE /\ Len(upload.form.ledger_names) = 1
                /\ IsTrimOf(upload.form.ledger_names[1], last.preLedger)
        /\ upload.form.financial_year = IF last.preFY = "" THEN <<>> ELSE <<last.preFY>>
\* Two files, a ledger name with a space in front and a year are submitted.
C35_Witness ==
    /\ last.op = "submit"
    /\ Len(last.preFiles) = 2
    /\ last.preLedger = <<" ", "A">>
    /\ last.preFY # ""
\* A blank ledger name and no year are submitted.
C35_WitnessBlank ==
    /\ last.op = "submit"
    /\ last.preFiles # <<>>
    /\ last.preLedger = <<" ">>
    /\ last.preFY = ""

\* C36: after fetchData resumed, isLoading is false; an OK response is stored
\* in order and its first label, if any, is selected; a failure leaves the
\* list and the selection as they were.
C36_ReportingPeriods ==
    last.op = "years" =>
        /\ ~isLoading
        /\ last.note = "ok" =>
              /\ financialYears = last.years
              /\ selectedFY = IF last.years # <<>> THEN last.years[1] ELSE last.preFY
        /\ last.note # "ok" =>
              /\ financialYears = last.preYears
              /\ selectedFY = last.preFY
\* Two labels were returned.
C36_Witness ==
    /\ last.op = "years"
    /\ last.note = "ok"
    /\ Len(last.years) = 2
\* The request failed.
C36_WitnessFailure ==
    /\ last.op = "years"
    /\ last.note \in {"notok", "throw"}

\* A query answered not-found or with another non-OK response takes the page
\* to exactly the state a query that threw takes it to.
NonOkLikeThrow ==
    \A k \in 1..MaxOverlap : PollReply(k, "notok") <=> PollReply(k, "throw")
\* A tick with a failed query ends with the job's previous record in
\* activeJobs and with the interval set again.
FailedQueryKeepsPolling ==
    TickDone =>
        \A k \in TickIdx :
            Failed(k) =>
                /\ \E p \in 1..Len(activeJobs) : activeJobs[p] = last.jobs[k]
                /\ pollInterval.live
                /\ liveTimers = 1
\* The half of C31 that holds: non-OK is handled as a transport failure, and
\* the tick keeps the job and the polling.
C31_NonOkIsFailure == []FailedQueryKeepsPolling /\ [][NonOkLikeThrow]_vars
\* Once the list response of the mount has been applied, a job of activeJobs
\* that no query has succeeded for is in activeJobs after the step.
NeverQueriedStays ==
    \A id \in JobIds :
        (load.phase = "done" /\ id \in Ids(activeJobs) /\ ~lastGood'[id].queried) =>
            id \in Ids(activeJobs')
\* The same for every step but the end of a callback whose interval was
\* cleared while it was running.
NeverQueriedStaysUnlessStale ==
    (last'.op = "tick" /\ last'.note = "resubscribed") \/ NeverQueriedStays
C31_StaysUnlessStale == [][NeverQueriedStaysUnlessStale]_vars

\* C31: a status query answered not-found or non-OK is handled exactly like one
\* that threw: the job keeps its previous record and stays in activeJobs, so a
\* job whose query never succeeds never leaves activeJobs and the interval
\* stays set.
C31_NeverSucceedingStaysActive ==
    []FailedQueryKeepsPolling /\ [][NonOkLikeThrow /\ NeverQueriedStays]_vars

\* C32: once the list response of the mount has been applied, a tick and an
\* upload leave the previous completedJobs as the unchanged tail of
\* completedJobs; a tick that found no terminal job and every upload leave
\* completedJobs as it was.
C32_CompletedGrowsAtFront ==
    (load.phase = "done" /\ last.op \in {"tick", "upload"}) =>
        /\ Len(completedJobs) >= Len(last.preCompleted)
        /\ SubSeq(completedJobs, Len(completedJobs) - Len(last.preCompleted) + 1,
                  Len(completedJobs)) = last.preCompleted
        /\ (TickDone /\ \A k \in TickIdx : ~FoundTerminal(k)) => completedJobs = last.preCompleted
        /\ last.op = "upload" => completedJobs = last.preCompleted
\* A tick found a terminal job while completedJobs held a record.
C32_Witness ==
    /\ load.phase = "done"
    /\ TickDone
    /\ last.preCompleted # <<>>
    /\ \E k \in TickIdx : FoundTerminal(k)
\* An upload succeeded while completedJobs held a record.
C32_WitnessUpload ==
    /\ load.phase = "done"
    /\ last.op = "upload"
    /\ last.note = "ok"
    /\ last.preCompleted # <<>>
====
